---- MODULE Spec2Model ----
(***************************************************************************)
(* State-machine model of app.py: the Flask session, the users and         *)
(* appointments tables, and the request handlers that read and write them. *)
(* One action per handler; the completion service and the request inputs   *)
(* are nondeterministic choices from small sets.                           *)
(***************************************************************************)
EXTENDS Integers, Sequences, FiniteSets, TLC

\* users, appts: the two tables, a row's id being its position.
\* session: the Flask session of the one browser.  today: date.today().
\* resp: the response to the last request.  calls: the completion calls the
\* last request made, each with the kind of its outcome.
\* pending: the signup requests that have made their existence check and not
\* yet their INSERT, by worker.
VARIABLES users, appts, session, today, resp, calls, pending

vars == <<users, appts, session, today, resp, calls, pending>>

\* ------------------------------------------------------------------ bounds
MaxUsers == 2
MaxAppts == 1
MaxTurns == 2

\* ------------------------------------------------------------------ values
\* A nullable text value: Python None / SQL NULL / JSON null, a string or a
\* JSON array.
NULL == [t |-> "null", v |-> ""]
Str(s) == [t |-> "str", v |-> s]
List == [t |-> "list", v |-> ""]

\* Python truthiness of such a value (None, "" are falsy; [] is falsy too).
Truthy(x) == x.t = "str" /\ x.v # ""

\* str.strip() on the strings that occur with surrounding whitespace.
Strip(s) ==
    CASE s = " " -> ""
      [] s = " g1 " -> "g1"
      [] s = " Bob " -> "Bob"
      [] s = " BMI: 20\n" -> "BMI: 20"
      [] OTHER -> s

\* SQL LOWER(): folds ASCII letters only ("É" stays as it is).
LOWER(s) ==
    CASE s = "Amy" -> "amy"
      [] s = "AMY" -> "amy"
      [] s = "Bob" -> "bob"
      [] OTHER -> s

\* Python str.lower(): folds every cased letter.
lower(s) ==
    CASE s = "Amy" -> "amy"
      [] s = "AMY" -> "amy"
      [] s = "Bob" -> "bob"
      [] s = "É" -> "é"
      [] OTHER -> s

\* werkzeug password hashing: a hash verifies exactly the password it was
\* made from.
generate_password_hash(p) == <<"hash", p>>
check_password_hash(h, p) == h = generate_password_hash(p)

\* ------------------------------------------------------------------- dates
Date(y, m, d) == [ok |-> TRUE, y |-> y, m |-> m, d |-> d]
BadDate == [ok |-> FALSE, y |-> 0, m |-> 0, d |-> 0]
NoDate == [ok |-> FALSE, y |-> 0, m |-> 0, d |-> -1]

\* The days on which requests arrive, in order.
Days == << Date(2024, 6, 14), Date(2024, 6, 15) >>

\* The comparison with <= in place of <.
MonthDayNotAfter(a, b) == a.m < b.m \/ (a.m = b.m /\ a.d <= b.d)

\* (a.month, a.day) < (b.month, b.day), Python tuple comparison.
MonthDayBefore(a, b) == a.m < b.m \/ (a.m = b.m /\ a.d < b.d)

\* today.year - dob.year - ((today.month, today.day) < (dob.month, dob.day))
Age(dob, now) == now.y - dob.y - (IF MonthDayBefore(now, dob) THEN 1 ELSE 0)

\* ------------------------------------------------------------------- texts
\* Exception texts are sequences of characters, so that the handlers'
\* substring tests are computed on them.
UpperLetters ==
    <<"A", "B", "C", "D", "E", "F", "G", "H", "I", "J", "K", "L", "M",
      "N", "O", "P", "Q", "R", "S", "T", "U", "V", "W", "X", "Y", "Z">>
LowerLetters ==
    <<"a", "b", "c", "d", "e", "f", "g", "h", "i", "j", "k", "l", "m",
      "n", "o", "p", "q", "r", "s", "t", "u", "v", "w", "x", "y", "z">>

\* str.lower() on one character, then on a text.
LowerChar(c) ==
    IF \E i \in 1..Len(UpperLetters) : UpperLetters[i] = c
    THEN LowerLetters[CHOOSE i \in 1..Len(UpperLetters) : UpperLetters[i] = c]
    ELSE c
LowerText(s) == [i \in 1..Len(s) |-> LowerChar(s[i])]

\* needle in hay
Contains(hay, needle) ==
    \E i \in 0..(Len(hay) - Len(needle)) : SubSeq(hay, i + 1, i + Len(needle)) = needle

\* "rate_limit"
NeedleRateLimit ==
    <<"r", "a", "t", "e", "_", "l", "i", "m", "i", "t">>
\* "429"
Needle429 ==
    <<"4", "2", "9">>
\* "api key"
NeedleApiKey ==
    <<"a", "p", "i", " ", "k", "e", "y">>
\* "authentication"
NeedleAuthentication ==
    <<"a", "u", "t", "h", "e", "n", "t", "i", "c", "a", "t", "i",
      "o", "n">>
\* "OpenAI API returned an empty response"
EmptyResponseDetail ==
    <<"O", "p", "e", "n", "A", "I", " ", "A", "P", "I", " ", "r",
      "e", "t", "u", "r", "n", "e", "d", " ", "a", "n", " ", "e",
      "m", "p", "t", "y", " ", "r", "e", "s", "p", "o", "n", "s",
      "e">>
\* "OpenAI API returned a message with no content"
NoContentDetail ==
    <<"O", "p", "e", "n", "A", "I", " ", "A", "P", "I", " ", "r",
      "e", "t", "u", "r", "n", "e", "d", " ", "a", " ", "m", "e",
      "s", "s", "a", "g", "e", " ", "w", "i", "t", "h", " ", "n",
      "o", " ", "c", "o", "n", "t", "e", "n", "t">>
\* "Error code: 429"
Detail429 ==
    <<"E", "r", "r", "o", "r", " ", "c", "o", "d", "e", ":", " ",
      "4", "2", "9">>
\* "RATE_LIMIT_exceeded"
DetailRateLimit ==
    <<"R", "A", "T", "E", "_", "L", "I", "M", "I", "T", "_", "e",
      "x", "c", "e", "e", "d", "e", "d">>
\* "Incorrect API key provided"
DetailApiKey ==
    <<"I", "n", "c", "o", "r", "r", "e", "c", "t", " ", "A", "P",
      "I", " ", "k", "e", "y", " ", "p", "r", "o", "v", "i", "d",
      "e", "d">>
\* "AuthenticationError"
DetailAuthentication ==
    <<"A", "u", "t", "h", "e", "n", "t", "i", "c", "a", "t", "i",
      "o", "n", "E", "r", "r", "o", "r">>
\* "Error code: 429 - check your API key quota"
DetailQuota ==
    <<"E", "r", "r", "o", "r", " ", "c", "o", "d", "e", ":", " ",
      "4", "2", "9", " ", "-", " ", "c", "h", "e", "c", "k", " ",
      "y", "o", "u", "r", " ", "A", "P", "I", " ", "k", "e", "y",
      " ", "q", "u", "o", "t", "a">>
\* "Connection error."
DetailConnection ==
    <<"C", "o", "n", "n", "e", "c", "t", "i", "o", "n", " ", "e",
      "r", "r", "o", "r", ".">>
\* "Expecting value"
DetailJson ==
    <<"E", "x", "p", "e", "c", "t", "i", "n", "g", " ", "v", "a",
      "l", "u", "e">>
\* "'list' object has no attribute 'get'"
DetailNoGet ==
    <<"'", "l", "i", "s", "t", "'", " ", "o", "b", "j", "e", "c",
      "t", " ", "h", "a", "s", " ", "n", "o", " ", "a", "t", "t",
      "r", "i", "b", "u", "t", "e", " ", "'", "g", "e", "t", "'">>
\* "'NoneType' object has no attribute 'strip'"
DetailNoStrip ==
    <<"'", "N", "o", "n", "e", "T", "y", "p", "e", "'", " ", "o",
      "b", "j", "e", "c", "t", " ", "h", "a", "s", " ", "n", "o",
      " ", "a", "t", "t", "r", "i", "b", "u", "t", "e", " ", "'",
      "s", "t", "r", "i", "p", "'">>
\* "type 'list' is not supported"
DetailBind ==
    <<"t", "y", "p", "e", " ", "'", "l", "i", "s", "t", "'", " ",
      "i", "s", " ", "n", "o", "t", " ", "s", "u", "p", "p", "o",
      "r", "t", "e", "d">>

\* ----------------------------------------------------------------- session
NoAppointmentData == [id |-> 0, age_years |-> 0, patient_name |-> "", gender |-> ""]

\* The session bag: the keys present, and their values (a key that is not
\* present holds the default written here).
EmptySession ==
    [keys |-> {},
     user_id |-> 0, username |-> "", name |-> NULL, role |-> "",
     admin_group |-> NULL, patient_group |-> NULL,
     appointment_data |-> NoAppointmentData,
     conversation_history |-> << >>]

\* session[...] = ... for the six identity keys, from a users row.
StoreUser(s, u) ==
    [s EXCEPT !.keys = @ \cup {"user_id", "username", "name", "role",
                               "admin_group", "patient_group"},
              !.user_id = u.id, !.username = u.username, !.name = u.name,
              !.role = u.role, !.admin_group = u.admin_group,
              !.patient_group = u.patient_group]

\* --------------------------------------------------------------- responses
NoText == << >>
Response(op, status, page) ==
    [op |-> op, status |-> status, page |-> page,
     error |-> NoText, message |-> NoText, data |-> NULL, rows |-> {}]

\* ------------------------------------------------------------------- users
\* SELECT * FROM users WHERE LOWER(username) = LOWER(?) ... fetchone()
FindUserLower(name) ==
    LET hits == {i \in 1..Len(users) : LOWER(users[i].username) = LOWER(name)}
    IN IF hits = {} THEN 0 ELSE CHOOSE i \in hits : \A j \in hits : i <= j

\* SELECT ... FROM users WHERE id = ?
UserById(id) == IF id \in 1..Len(users) THEN id ELSE 0

\* The forms a browser submits to POST /signup.
ValidForm ==
    [first_name |-> "Amy", last_name |-> "Lee", username |-> "amy",
     password |-> "pw", role |-> "patient", admin_group |-> "",
     patient_group |-> "g1", date_of_birth |-> Date(2010, 6, 15),
     gender |-> "female"]

\* The age limit that applies to patients only, off by one.
PediatricOnlyFrom18(role, age) == role = "patient" /\ age >= 18

\* if role == "patient" and age > 18
PediatricOnly(role, age) == role = "patient" /\ age > 18

\* The validation of POST /signup up to and including the case-insensitive
\* existence check: the error it renders, or NoText when the form passes.
SignupError(f) ==
    LET first_name == Strip(f.first_name)
        last_name == Strip(f.last_name)
        admin_group == Strip(f.admin_group)
        gender == Strip(f.gender)
        dob == f.date_of_birth
        age == Age(dob, today)
    IN
    IF \/ first_name = "" \/ last_name = "" \/ f.username = ""
       \/ f.password = "" \/ f.role = "" \/ dob = NoDate \/ gender = ""
    THEN <<"required">>
    ELSE IF gender \notin {"male", "female"}
    THEN <<"gender">>
    ELSE IF ~dob.ok
    THEN <<"dob_invalid">>
    ELSE IF age < 0
    THEN <<"dob_future">>
    ELSE IF PediatricOnly(f.role, age)
    THEN <<"pediatric_only">>
    ELSE IF f.role = "admin" /\ admin_group = ""
    THEN <<"admin_group">>
    ELSE IF FindUserLower(f.username) # 0
    THEN <<"username_exists">>
    ELSE NoText

\* The row that INSERT INTO users adds for a form.
SignupRow(f) ==
    [id |-> Len(users) + 1,
     username |-> f.username,
     password_hash |-> generate_password_hash(f.password),
     role |-> f.role,
     admin_group |-> IF f.role = "admin" THEN Str(Strip(f.admin_group)) ELSE NULL,
     patient_group |-> IF f.role = "patient" THEN Str(Strip(f.patient_group)) ELSE NULL,
     name |-> Str(Strip(f.first_name) \o " " \o Strip(f.last_name)),
     date_of_birth |-> f.date_of_birth,
     gender |-> Strip(f.gender)]

\* The INSERT, the commit and the automatic login; the UNIQUE constraint on
\* username compares byte for byte and raises IntegrityError, which the
\* handler renders as the same error.
SignupInsert(f) ==
    IF \E i \in 1..Len(users) : users[i].username = f.username
    THEN /\ resp' = [Response("signup", 200, "signup.html") EXCEPT
                       !.error = <<"username_exists">>]
         /\ UNCHANGED <<users, session>>
    ELSE /\ Len(users) < MaxUsers
         /\ users' = Append(users, SignupRow(f))
         /\ session' = StoreUser(session, SignupRow(f))
         /\ resp' = Response("signup", 302, "main_page")

\* POST /signup as one step: a request that runs to completion before the
\* next one starts.
signup(f) ==
    /\ calls' = {}
    /\ UNCHANGED <<appts, today, pending>>
    /\ IF SignupError(f) # NoText
       THEN /\ resp' = [Response("signup", 200, "signup.html") EXCEPT
                          !.error = SignupError(f)]
            /\ UNCHANGED <<users, session>>
       ELSE SignupInsert(f)

\* POST /signup served by one of several workers, in two steps: the
\* validation with its SELECT, and then the INSERT on the same connection.
Workers == {"w1", "w2"}
NoForm == [username |-> ""]

signup_check(w, f) ==
    /\ pending[w] = NoForm
    /\ calls' = {}
    /\ UNCHANGED <<users, appts, session, today>>
    /\ IF SignupError(f) # NoText
       THEN /\ resp' = [Response("signup", 200, "signup.html") EXCEPT
                          !.error = SignupError(f)]
            /\ UNCHANGED pending
       ELSE /\ pending' = [pending EXCEPT ![w] = f]
            /\ UNCHANGED resp

signup_insert(w) ==
    /\ pending[w] # NoForm
    /\ pending' = [pending EXCEPT ![w] = NoForm]
    /\ calls' = {}
    /\ UNCHANGED <<appts, today>>
    /\ SignupInsert(pending[w])

login(username, password) ==
    LET i == FindUserLower(username) IN
    /\ calls' = {}
    /\ UNCHANGED <<users, appts, today, pending>>
    /\ IF username = "" \/ password = ""
       THEN /\ resp' = Response("login", 200, "login.html")
            /\ UNCHANGED session
       ELSE IF i # 0 /\ check_password_hash(users[i].password_hash, password)
       THEN /\ session' = StoreUser(session, users[i])
            /\ resp' = Response("login", 302, "main_page")
       ELSE /\ resp' = Response("login", 200, "login.html")
            /\ UNCHANGED session

\* A logout that forgets the identity and the appointment but not the
\* transcript.
logoutKeepsTranscript ==
    /\ session' = [EmptySession EXCEPT
                     !.keys = session.keys \cap {"conversation_history"},
                     !.conversation_history = session.conversation_history]
    /\ resp' = Response("logout", 302, "cover_page")
    /\ calls' = {}
    /\ UNCHANGED <<users, appts, today, pending>>

\* A logout that forgets the identity and keeps the appointment in progress.
logoutKeepsAppointment ==
    /\ session' = [session EXCEPT
                     !.keys = @ \ {"user_id", "username", "name", "role",
                                   "admin_group", "patient_group"}]
    /\ resp' = Response("logout", 302, "cover_page")
    /\ calls' = {}
    /\ UNCHANGED <<users, appts, today, pending>>

logout ==
    /\ session' = EmptySession
    /\ resp' = Response("logout", 302, "cover_page")
    /\ calls' = {}
    /\ UNCHANGED <<users, appts, today, pending>>

\* ------------------------------------------------------------ appointments
InfoKeys == {"diet", "toileting", "sleep", "development_behavior", "social",
             "concerns"}
RecKeys == {"diet_recommendations", "toileting_recommendations",
            "sleep_recommendations", "development_behavior_recommendations",
            "social_recommendations", "concerns_recommendations"}
DataKeys == {"height", "weight"} \cup InfoKeys \cup RecKeys

\* The appointments column that the UPDATE fills from each key of the
\* extraction result.
InfoCol(k) ==
    CASE k = "diet" -> "diet_info"
      [] k = "toileting" -> "toileting_info"
      [] k = "sleep" -> "sleep_info"
      [] k = "development_behavior" -> "development_behavior_info"
      [] k = "social" -> "social_info"
      [] k = "concerns" -> "extracted_concerns"
InfoCols == {InfoCol(k) : k \in InfoKeys}
Cols == {"height", "weight", "growth_percentile_info"} \cup InfoCols \cup RecKeys

NA == Str("N/A")

\* The columns of a row right after INSERT INTO appointments (user_id, date,
\* time, age_years, height, weight): the columns not named are NULL.
NewCols == [c \in Cols |-> IF c \in {"height", "weight"} THEN NA ELSE NULL]

appointment_page ==
    LET user_id == IF "user_id" \in session.keys THEN session.user_id ELSE 0
        u == UserById(user_id)
        user == users[u]
        patient_name == IF Truthy(user.name) THEN user.name.v ELSE user.username
        age_years == Age(user.date_of_birth, today)
        appointment_id == Len(appts) + 1
    IN
    /\ calls' = {}
    /\ UNCHANGED <<users, today, pending>>
    /\ IF user_id = 0
       THEN /\ resp' = Response("appointment", 302, "login")
            /\ UNCHANGED <<appts, session>>
       ELSE IF u = 0
       THEN /\ resp' = Response("appointment", 302, "login")
            /\ UNCHANGED <<appts, session>>
       ELSE IF ~user.date_of_birth.ok
       THEN /\ resp' = Response("appointment", 302, "main_page")
            /\ UNCHANGED <<appts, session>>
       ELSE /\ Len(appts) < MaxAppts
            /\ appts' = Append(appts, [id |-> appointment_id, user_id |-> user_id,
                                       age_years |-> age_years, cols |-> NewCols])
            /\ session' =
                 [session EXCEPT
                    !.keys = @ \cup {"appointment_data", "conversation_history"},
                    !.appointment_data =
                        [id |-> appointment_id, age_years |-> age_years,
                         patient_name |-> patient_name, gender |-> user.gender],
                    !.conversation_history = << >>]
            /\ resp' = Response("appointment", 302, "conversation_page")

\* ------------------------------------------------------- completion service
\* What one call of client.chat.completions.create can do: raise, return no
\* choices, or return a first choice whose message content is None or a
\* string.
Raises(detail) == [kind |-> "raise", detail |-> detail, content |-> NULL]
NoChoices == [kind |-> "nochoices", detail |-> NoText, content |-> NULL]
Content(c) == [kind |-> "content", detail |-> NoText, content |-> c]

ErrorDetails == {Detail429, DetailRateLimit, DetailApiKey, DetailAuthentication,
                 DetailQuota, DetailConnection}
Failures == {Raises(Detail429), Raises(DetailApiKey), Raises(DetailConnection)}

\* --------------------------------------------------------------------- chat
Entry(role, content) == [role |-> role, content |-> content]

RateLimitMessage == <<"I'm currently experiencing high demand. Please wait about 20 seconds and try again. Thank you for your patience!">>
AuthenticationMessage == <<"There was an authentication issue. Please contact support if this persists.">>
GenericMessage == <<"Sorry, I encountered an error processing your message. Please try again in a moment.">>

\* The tests for the needles made on str(e) as it is, without lower().
ApologyCaseSensitive(error_msg) ==
    IF Contains(error_msg, NeedleRateLimit) \/ Contains(error_msg, Needle429)
    THEN RateLimitMessage
    ELSE IF \/ Contains(error_msg, NeedleApiKey)
            \/ Contains(error_msg, NeedleAuthentication)
    THEN AuthenticationMessage
    ELSE GenericMessage

\* The except branch of conversation_page: the apology for str(e).
Apology(error_msg) ==
    IF Contains(LowerText(error_msg), NeedleRateLimit) \/ Contains(error_msg, Needle429)
    THEN RateLimitMessage
    ELSE IF \/ Contains(LowerText(error_msg), NeedleApiKey)
            \/ Contains(LowerText(error_msg), NeedleAuthentication)
    THEN AuthenticationMessage
    ELSE GenericMessage

\* The chat turn without the check for an empty message content.
ChatErrorNoContentCheck(out) ==
    CASE out.kind = "raise" -> out.detail
      [] out.kind = "nochoices" -> EmptyResponseDetail
      [] OTHER -> NoText

\* What the chat turn does with the completion call's outcome: the error
\* text it raises, or NoText when it goes on to append.
ChatError(out) ==
    CASE out.kind = "raise" -> out.detail
      [] out.kind = "nochoices" -> EmptyResponseDetail
      [] out.kind = "content" /\ ~Truthy(out.content) -> NoContentDetail
      [] OTHER -> NoText

\* The two appends in the wrong order.
AppendTurnSwapped(history, user_message, assistant_message) ==
    Append(Append(history, Entry("assistant", assistant_message)),
           Entry("user", user_message))

\* conversation_history.append(user); conversation_history.append(assistant)
AppendTurn(history, user_message, assistant_message) ==
    Append(Append(history, Entry("user", user_message)),
           Entry("assistant", assistant_message))

conversation_page(method, user_message, out) ==
    LET conversation_history ==
            IF "conversation_history" \in session.keys
            THEN session.conversation_history ELSE << >>
        error_msg == ChatError(out)
    IN
    /\ UNCHANGED <<users, appts, today, pending>>
    /\ IF "appointment_data" \notin session.keys
       THEN /\ resp' = Response("conversation", 302, "appointment_page")
            /\ calls' = {}
            /\ UNCHANGED session
       ELSE IF method = "GET"
       THEN /\ resp' = Response("conversation", 200, "conversation.html")
            /\ calls' = {}
            /\ UNCHANGED session
       ELSE IF user_message = ""
       THEN /\ resp' = [Response("conversation", 400, "json") EXCEPT
                          !.error = <<"No message provided">>]
            /\ calls' = {}
            /\ UNCHANGED session
       ELSE /\ calls' = {<<"chat", out.kind>>}
            /\ IF error_msg # NoText
               THEN /\ resp' = [Response("conversation", 500, "json") EXCEPT
                                  !.error = error_msg,
                                  !.message = Apology(error_msg)]
                    /\ UNCHANGED session
               ELSE /\ Len(conversation_history) < 2 * MaxTurns
                    /\ session' =
                         [session EXCEPT
                            !.keys = @ \cup {"conversation_history"},
                            !.conversation_history =
                                AppendTurn(conversation_history, user_message,
                                           out.content.v)]
                    /\ resp' = [Response("conversation", 200, "json") EXCEPT
                                  !.message = <<out.content.v>>]

Utterances == {"", "I am her dad", "She is fine"}
ChatOutcomes == Failures \cup {NoChoices, Content(NULL), Content(Str("")),
                               Content(Str("How is your day going?"))}

\* --------------------------------------------------------------- extraction
\* dict.get(k, default): the default is used only when the key is absent.
Get(data, k, default) == IF k \in DOMAIN data THEN data[k] ELSE default

EmptyObject == [k \in {} |-> NULL]

FullData ==
    [k \in DataKeys |->
        IF k = "height" THEN Str("150 cm")
        ELSE IF k = "weight" THEN Str("45 kg")
        ELSE IF k \in RecKeys THEN Str("- eat more fruit")
        ELSE Str("- two servings")]

Without(data, ks) == [k \in (DOMAIN data) \ ks |-> data[k]]

\* json.loads on the texts the completion service returns for the
\* extraction prompt: a parse error, a JSON array, or a JSON object.
json_loads(text) ==
    CASE text = "{...}" -> [kind |-> "object", obj |-> FullData]
      [] text = "{}" -> [kind |-> "object", obj |-> EmptyObject]
      [] text = "{... \"height\": \"N/A\"}" ->
            [kind |-> "object", obj |-> [FullData EXCEPT !["height"] = NA]]
      [] text = "{... no weight}" ->
            [kind |-> "object", obj |-> Without(FullData, {"weight"})]
      [] text = "{... \"diet\": null, \"diet_recommendations\": null}" ->
            [kind |-> "object",
             obj |-> [FullData EXCEPT !["diet"] = NULL,
                                      !["diet_recommendations"] = NULL]]
      [] text = "{... \"sleep\": [\"9 hours\"]}" ->
            [kind |-> "object", obj |-> [FullData EXCEPT !["sleep"] = List]]
      [] text = "[]" -> [kind |-> "array", obj |-> EmptyObject]
      [] OTHER -> [kind |-> "error", obj |-> EmptyObject]

ExtractionTexts ==
    {"{...}", "{}", "{... \"height\": \"N/A\"}", "{... no weight}",
     "{... \"diet\": null, \"diet_recommendations\": null}",
     "{... \"sleep\": [\"9 hours\"]}", "[]",
     "I cannot help with that"}

ExtractionOutcomes ==
    Failures \cup {NoChoices, Content(NULL)} \cup {Content(Str(s)) : s \in ExtractionTexts}

GrowthOutcomes ==
    Failures \cup {NoChoices, Content(NULL), Content(Str(" BMI: 20\n"))}

\* The growth call skipped only when height and weight are both 'N/A'.
GrowthWantedEither(extracted_height, extracted_weight, patient_age, patient_gender) ==
    /\ (extracted_height # NA \/ extracted_weight # NA)
    /\ patient_age # 0
    /\ patient_gender # ""

\* The condition under which extract_diet calls the completion service for
\* the growth percentiles.
GrowthWanted(extracted_height, extracted_weight, patient_age, patient_gender) ==
    /\ extracted_height # NA
    /\ extracted_weight # NA
    /\ patient_age # 0
    /\ patient_gender # ""

\* The inner except branch without its assignment of 'N/A'.
GrowthInfoNoFallback(gout) ==
    IF gout.kind = "content" /\ gout.content.t = "str"
    THEN Str(Strip(gout.content.v))
    ELSE NULL

\* growth_percentile_info after the inner try/except around the growth call.
GrowthInfo(gout) ==
    IF gout.kind = "content" /\ gout.content.t = "str"
    THEN Str(Strip(gout.content.v))
    ELSE NA

\* The fifteen values bound to the UPDATE, by column.
UpdateParams(data, growth_percentile_info) ==
    [c \in Cols |->
        CASE c = "height" -> Get(data, "height", NA)
          [] c = "weight" -> Get(data, "weight", NA)
          [] c = "growth_percentile_info" -> growth_percentile_info
          [] c \in InfoCols ->
                Get(data, CHOOSE k \in InfoKeys : InfoCol(k) = c, Str(""))
          [] OTHER -> Get(data, c, Str("None"))]

\* sqlite3 binds None and str; a list cannot be bound.
Bindable(params) == \A c \in DOMAIN params : params[c].t # "list"

\* The outer try without the failure of json.loads: unparseable text is
\* taken for an empty object.
ExtractErrorLenient(out) ==
    CASE out.kind = "raise" -> out.detail
      [] out.kind = "nochoices" -> <<"list index out of range">>
      [] out.kind = "content" /\ out.content.t # "str" -> DetailNoStrip
      [] json_loads(Strip(out.content.v)).kind = "array" -> DetailNoGet
      [] OTHER -> NoText

\* The error text of the outer except branch, or NoText when the handler
\* reaches the UPDATE with a parsed object.
ExtractError(out) ==
    CASE out.kind = "raise" -> out.detail
      [] out.kind = "nochoices" -> <<"list index out of range">>
      [] out.kind = "content" /\ out.content.t # "str" -> DetailNoStrip
      [] json_loads(Strip(out.content.v)).kind = "error" -> DetailJson
      [] json_loads(Strip(out.content.v)).kind = "array" -> DetailNoGet
      [] OTHER -> NoText

\* out is the outcome of the extraction call; the outcome of the growth
\* call is chosen where the handler makes that call.
extract_diet(out) ==
    LET appointment_data == session.appointment_data
        appointment_id == appointment_data.id
        conversation_history ==
            IF "conversation_history" \in session.keys
            THEN session.conversation_history ELSE << >>
        failed == ExtractError(out)
        data == json_loads(Strip(out.content.v)).obj
        extracted_height == Get(data, "height", NA)
        extracted_weight == Get(data, "weight", NA)
        wanted == GrowthWanted(extracted_height, extracted_weight,
                               appointment_data.age_years, appointment_data.gender)
        \* the UPDATE, the commit and the response
        Save(growth_percentile_info) ==
            LET params == UpdateParams(data, growth_percentile_info) IN
            IF ~Bindable(params)
            THEN /\ resp' = [Response("extract", 500, "json") EXCEPT
                               !.error = DetailBind]
                 /\ UNCHANGED appts
            ELSE /\ appts' =
                      [i \in 1..Len(appts) |->
                         IF appts[i].id = appointment_id
                         THEN [appts[i] EXCEPT !.cols = params]
                         ELSE appts[i]]
                 /\ resp' = [Response("extract", 200, "json") EXCEPT !.data = data]
    IN
    /\ UNCHANGED <<users, session, today, pending>>
    /\ IF "appointment_data" \notin session.keys
       THEN /\ resp' = [Response("extract", 400, "json") EXCEPT
                          !.error = <<"No active appointment">>]
            /\ calls' = {}
            /\ UNCHANGED appts
       ELSE IF appointment_id = 0 \/ conversation_history = << >>
       THEN /\ resp' = [Response("extract", 400, "json") EXCEPT
                          !.error = <<"No conversation data available">>]
            /\ calls' = {}
            /\ UNCHANGED appts
       ELSE IF failed # NoText
       THEN /\ resp' = [Response("extract", 500, "json") EXCEPT !.error = failed]
            /\ calls' = {<<"extract", out.kind>>}
            /\ UNCHANGED appts
       ELSE IF wanted
       THEN \E gout \in GrowthOutcomes :
               /\ calls' = {<<"extract", out.kind>>, <<"growth", gout.kind>>}
               /\ Save(GrowthInfo(gout))
       ELSE /\ calls' = {<<"extract", out.kind>>}
            /\ Save(NA)

\* ------------------------------------------------------------------ reports
\* SELECT * FROM appointments WHERE user_id = ?
AppointmentsOf(user_id) == {i \in 1..Len(appts) : appts[i].user_id = user_id}

\* The check without the comparison of the groups.
NotInGroupOnlyMissing(target, admin_group) == target = 0

\* The admin's group check on the user whose reports are asked for.
NotInGroup(target, admin_group) ==
    target = 0 \/ users[target].patient_group # admin_group

reports_page(view_user_id) ==
    LET current_user_id == session.user_id
        current_user_role == session.role
        target == UserById(view_user_id)
        admin_group == session.admin_group
    IN
    /\ calls' = {}
    /\ UNCHANGED <<users, appts, session, today, pending>>
    /\ IF "user_id" \notin session.keys
       THEN resp' = Response("reports", 302, "login")
       ELSE IF view_user_id # 0
       THEN IF current_user_role # "admin"
            THEN resp' = Response("reports", 302, "reports_page")
            ELSE IF NotInGroup(target, admin_group)
            THEN resp' = Response("reports", 302, "people_page")
            ELSE resp' = [Response("reports", 200, "reports.html") EXCEPT
                            !.rows = AppointmentsOf(view_user_id)]
       ELSE resp' = [Response("reports", 200, "reports.html") EXCEPT
                       !.rows = AppointmentsOf(current_user_id)]

\* SELECT ... FROM users WHERE patient_group = ?
people_page ==
    LET admin_group == session.admin_group IN
    /\ calls' = {}
    /\ UNCHANGED <<users, appts, session, today, pending>>
    /\ IF "user_id" \notin session.keys
       THEN resp' = Response("people", 302, "login")
       ELSE IF session.role # "admin"
       THEN resp' = Response("people", 302, "main_page")
       ELSE IF ~Truthy(admin_group)
       THEN resp' = Response("people", 302, "main_page")
       ELSE resp' = [Response("people", 200, "people.html") EXCEPT
                       !.rows = {i \in 1..Len(users) :
                                    users[i].patient_group = admin_group}]

\* ------------------------------------------------------------------ profile
edit_profile(username, password, name) ==
    LET u == UserById(session.user_id)
        user == users[u]
        new_username == Strip(username)
        new_password == Strip(password)
        new_name == Strip(name)
        stored_name == IF new_name # "" THEN Str(new_name) ELSE NULL
        Render(err) ==
            /\ resp' = [Response("edit_profile", 200, "edit_profile.html") EXCEPT
                          !.error = err]
            /\ UNCHANGED <<users, session>>
    IN
    /\ calls' = {}
    /\ UNCHANGED <<appts, today, pending>>
    /\ IF "user_id" \notin session.keys
       THEN /\ resp' = Response("edit_profile", 302, "cover_page")
            /\ UNCHANGED <<users, session>>
       ELSE IF u = 0
       THEN /\ session' = EmptySession
            /\ resp' = Response("edit_profile", 302, "cover_page")
            /\ UNCHANGED users
       ELSE IF new_username = ""
       THEN Render(<<"username_required">>)
       ELSE IF /\ lower(new_username) # lower(user.username)
               /\ \E i \in 1..Len(users) :
                     LOWER(users[i].username) = LOWER(new_username) /\ users[i].id # user.id
       THEN Render(<<"username_exists">>)
       ELSE IF \E i \in 1..Len(users) :
                  users[i].username = new_username /\ users[i].id # user.id
       THEN \* UNIQUE constraint: the UPDATE raises, nothing is committed
            /\ resp' = Response("edit_profile", 500, "error")
            /\ UNCHANGED <<users, session>>
       ELSE /\ users' =
                 [users EXCEPT
                    ![u].username = new_username,
                    ![u].password_hash =
                        IF new_password # "" THEN generate_password_hash(new_password)
                        ELSE @,
                    ![u].name = stored_name]
            /\ session' = [session EXCEPT
                             !.keys = @ \cup {"username", "name"},
                             !.username = new_username,
                             !.name = stored_name]
            /\ resp' = Response("edit_profile", 302, "account_page")

\* A day passes between two requests.
Tick ==
    /\ \E i \in 1..(Len(Days) - 1) : today = Days[i] /\ today' = Days[i + 1]
    /\ UNCHANGED <<users, appts, session, resp, calls, pending>>

\* ------------------------------------------------------------------- inputs
AmyForm == ValidForm
BobForm == [ValidForm EXCEPT !.username = "bob", !.patient_group = "g2",
                             !.date_of_birth = Date(2024, 6, 14), !.gender = "male"]
DocForm == [ValidForm EXCEPT !.username = "doc", !.role = "admin",
                             !.admin_group = " g1 ", !.patient_group = "g2",
                             !.date_of_birth = Date(1980, 1, 1)]
EveForm == [ValidForm EXCEPT !.username = "eve", !.role = "admin", !.admin_group = " "]

\* The same person under usernames that differ in letter case only.
AmyUpperForm == [AmyForm EXCEPT !.username = "Amy"]
AcuteForm == [AmyForm EXCEPT !.username = "é"]
AcuteUpperForm == [AmyForm EXCEPT !.username = "É"]
\* 18 on 2024-06-14 and 19 on 2024-06-15.
TeenForm == [ValidForm EXCEPT !.username = "tom", !.gender = "male",
                              !.date_of_birth = Date(2005, 6, 15)]
\* Born on 2024-06-15: not yet born on 2024-06-14.
NewbornForm == [ValidForm EXCEPT !.username = "kim",
                                 !.date_of_birth = Date(2024, 6, 15)]
AdultForm == [ValidForm EXCEPT !.username = "dan", !.gender = "male",
                               !.date_of_birth = Date(1980, 1, 1)]
\* Forms that fail the first three validations.
NoNameForm == [ValidForm EXCEPT !.username = "ned", !.first_name = " "]
OtherGenderForm == [ValidForm EXCEPT !.username = "pat", !.gender = "other"]
BadDateForm == [ValidForm EXCEPT !.username = "ann", !.date_of_birth = BadDate]

\* Username and password pairs posted to /login.
LoginForms == { <<"", "pw">>, <<"Amy", "pw">>, <<"bob", "pw">>, <<"doc", "pw">>,
                <<"doc", "bad">>, <<"Bob", "pw2">> }
\* Username, password and name posted to /edit-profile.
EditForms == { <<"", "", "">>, <<" Bob ", "pw2", "Zed">> }

Ok == Content(Str("How is your day going?"))
FullJson == Content(Str("{...}"))

Init ==
    /\ users = << >>
    /\ appts = << >>
    /\ session = EmptySession
    /\ today = Days[1]
    /\ resp = Response("none", 0, "")
    /\ calls = {}
    /\ pending = [w \in Workers |-> NoForm]

\* Every handler, with one success and one failure of the completion service.
Next ==
    \/ \E f \in {AmyForm, DocForm, EveForm} : signup(f)
    \/ \E l \in LoginForms : login(l[1], l[2])
    \/ logout
    \/ \E e \in EditForms : edit_profile(e[1], e[2], e[3])
    \/ appointment_page
    \/ conversation_page("GET", "", NoChoices)
    \/ \E msg \in {"", "I am her dad"}, out \in {Ok, Raises(DetailConnection)} :
          conversation_page("POST", msg, out)
    \/ \E out \in {FullJson, Raises(DetailConnection)} : extract_diet(out)

Spec == Init /\ [][Next]_vars

\* The conversation: every outcome of the chat completion call.
NextChat ==
    \/ signup(AmyForm)
    \/ logout
    \/ appointment_page
    \/ conversation_page("GET", "", NoChoices)
    \/ \E msg \in Utterances, out \in ChatOutcomes :
          conversation_page("POST", msg, out)
    \/ \E out \in {FullJson, Raises(DetailConnection)} : extract_diet(out)
    \/ Tick

SpecChat == Init /\ [][NextChat]_vars

\* The extraction: every outcome of the extraction and growth completion
\* calls, for a 13-year-old and for an infant.
NextExtract ==
    \/ \E f \in {AmyForm, BobForm} : signup(f)
    \/ logout
    \/ appointment_page
    \/ conversation_page("POST", "I am her dad", Ok)
    \/ \E out \in ExtractionOutcomes : extract_diet(out)

SpecExtract == Init /\ [][NextExtract]_vars

\* The reports and people views, over patients of two groups and an admin.
NextReports ==
    \/ \E f \in {AmyForm, BobForm, DocForm} : signup(f)
    \/ \E l \in LoginForms : login(l[1], l[2])
    \/ logout
    \/ appointment_page
    \/ \E view_user_id \in 0..MaxUsers : reports_page(view_user_id)
    \/ people_page

SpecReports == Init /\ [][NextReports]_vars

\* The identity rules: usernames that differ in case, forms that fail each
\* validation, and profile edits that change the username.
IdentityForms == {AmyForm, AmyUpperForm, AcuteForm, AcuteUpperForm, NoNameForm,
                  OtherGenderForm, BadDateForm, NewbornForm, AdultForm, EveForm}
IdentityLogins == { <<"amy", "pw">>, <<"é", "pw">> }
IdentityEdits == { <<"", "", "">>, <<" Bob ", "pw2", "Zed">>, <<"AMY", "", "">>,
                   <<"é", "", "Amy Lee">> }

NextIdentity ==
    \/ \E f \in IdentityForms : signup(f)
    \/ \E l \in IdentityLogins : login(l[1], l[2])
    \/ logout
    \/ \E e \in IdentityEdits : edit_profile(e[1], e[2], e[3])

SpecIdentity == Init /\ [][NextIdentity]_vars

\* The age rules: signups and appointments on the day before and on the day
\* of a birthday.
AgeForms == {AmyForm, TeenForm, NewbornForm, AdultForm, DocForm, EveForm}

NextAge ==
    \/ \E f \in AgeForms : signup(f)
    \/ logout
    \/ appointment_page
    \/ Tick

SpecAge == Init /\ [][NextAge]_vars

\* The apologies: a chat turn against every failure of the completion call.
ApologyOutcomes ==
    {Raises(d) : d \in ErrorDetails} \cup
    {NoChoices, Content(NULL), Content(Str("")), Ok}

NextApology ==
    \/ signup(AmyForm)
    \/ logout
    \/ appointment_page
    \/ conversation_page("GET", "", NoChoices)
    \/ \E out \in {FullJson, Raises(DetailConnection)} : extract_diet(out)
    \/ \E msg \in {"", "I am her dad"}, out \in ApologyOutcomes :
          conversation_page("POST", msg, out)

SpecApology == Init /\ [][NextApology]_vars

\* The three callers of the completion service, each against a failure of
\* every class.
NextFailures ==
    \/ signup(AmyForm)
    \/ logout
    \/ appointment_page
    \/ \E msg \in Utterances \ {""}, out \in Failures \cup {Ok} :
          conversation_page("POST", msg, out)
    \/ \E out \in Failures \cup {FullJson} : extract_diet(out)

SpecFailures == Init /\ [][NextFailures]_vars

\* Two workers serving signups whose usernames differ in case only.
NextConcurrent ==
    \/ \E w \in Workers, f \in {AmyForm, AmyUpperForm, EveForm} : signup_check(w, f)
    \/ \E w \in Workers : signup_insert(w)
    \/ logout
    \/ appointment_page

SpecConcurrent == Init /\ [][NextConcurrent]_vars

\* ================================================================== claims
\* The transcript a session holds (none counts as the empty one).
History(s) ==
    IF "conversation_history" \in s.keys THEN s.conversation_history ELSE << >>

\* The completion call returned a first choice with a non-empty message.
Answered(out) == out.kind = "content" /\ out.content.t = "str" /\ out.content.v # ""

\* C1: a chat turn with an active appointment, a non-empty utterance and a
\* non-empty completion leaves the transcript equal to the previous one
\* followed by the user entry and then the assistant entry.
C1_ChatAppendsUserThenAssistant ==
    [][\A msg \in Utterances \ {""}, out \in ChatOutcomes :
          ( /\ "appointment_data" \in session.keys
            /\ Answered(out)
            /\ conversation_page("POST", msg, out) )
          => /\ "conversation_history" \in session'.keys
             /\ session'.conversation_history =
                   History(session) \o << [role |-> "user", content |-> msg],
                                          [role |-> "assistant",
                                           content |-> out.content.v] >>
             /\ resp'.message = << out.content.v >>]_vars

\* A second successful turn, after a first one with another utterance.
C1_Witness ==
    /\ resp.op = "conversation" /\ resp.status = 200 /\ resp.page = "json"
    /\ Len(History(session)) = 4
    /\ History(session)[1].content # History(session)[3].content
    /\ History(session)[4].role = "assistant"

\* C2: a chat turn whose completion call raises, returns no choices or
\* returns an empty or absent content leaves the session (its transcript
\* included) and every appointment row as they were.
C2_FailedChatChangesNothing ==
    [][\A msg \in Utterances \ {""}, out \in ChatOutcomes :
          ( /\ "appointment_data" \in session.keys
            /\ ~Answered(out)
            /\ conversation_page("POST", msg, out) )
          => /\ session' = session
             /\ appts' = appts
             /\ resp'.status = 500]_vars

\* A failed turn in a session that holds a transcript, for an appointment
\* whose row has been filled.
C2_Witness ==
    /\ resp.op = "conversation" /\ resp.status = 500
    /\ resp.error = NoContentDetail
    /\ Len(History(session)) = 2
    /\ \E i \in 1..Len(appts) : appts[i].cols # NewCols

\* The extraction request reaches the completion call: the session holds an
\* appointment with an id and a non-empty transcript.
Extractable ==
    /\ "appointment_data" \in session.keys
    /\ session.appointment_data.id # 0
    /\ History(session) # << >>

\* The completion call returned text that parses as a JSON object.
ParsedObject(out) ==
    /\ out.kind = "content" /\ out.content.t = "str"
    /\ json_loads(Strip(out.content.v)).kind = "object"

\* The row of the session's appointment, before and after a step.
Row == appts[session.appointment_data.id]
RowAfter == appts'[session.appointment_data.id]

\* The column an extraction key is stored in.
ColOf(k) == IF k \in InfoKeys THEN InfoCol(k) ELSE k

\* C3: an extraction whose completion call raises, or whose payload is not
\* a JSON object, writes no appointment row and answers 500 with a
\* diagnostic text.
C3_FailedExtractionWritesNothing ==
    [][\A out \in ExtractionOutcomes :
          ( /\ Extractable
            /\ ~ParsedObject(out)
            /\ extract_diet(out) )
          => /\ appts' = appts
             /\ resp'.status = 500
             /\ resp'.error # NoText]_vars

\* An unparseable payload for an appointment whose row has been filled by
\* an earlier extraction.
C3_Witness ==
    /\ resp.op = "extract" /\ resp.status = 500 /\ resp.error = DetailJson
    /\ calls = {<<"extract", "content">>}
    /\ "appointment_data" \in session.keys
    /\ Row.cols["diet_info"] = Str("- two servings")

\* C4 (as claimed): after a successful extraction all six info fields and
\* all six recommendations fields are strings, in the appointment row and
\* in the record returned.
C4_TwelveStringFields ==
    (resp.op = "extract" /\ resp.status = 200)
    => \A k \in InfoKeys \cup RecKeys :
          /\ Row.cols[ColOf(k)].t = "str"
          /\ k \in DOMAIN resp.data
          /\ resp.data[k].t = "str"

\* C5 (as claimed): after a successful extraction the session holds no
\* conversation transcript.
C5_TranscriptDiscarded ==
    (resp.op = "extract" /\ resp.status = 200)
    => "conversation_history" \notin session.keys

\* C6 (as claimed): a row whose health fields have been written by an
\* extraction is not changed again.
C6_WrittenAtMostOnce ==
    [][\A i \in 1..Len(appts) :
          appts[i].cols # NewCols => appts'[i].cols = appts[i].cols]_vars

\* C7: when the growth call of an otherwise successful extraction raises,
\* growth_percentile_info is stored as "N/A", every value the extraction
\* returned is stored in its column, and the request answers success.
C7_GrowthFailureIsNotFatal ==
    [][\A out \in ExtractionOutcomes :
          LET data == json_loads(Strip(out.content.v)).obj IN
          ( /\ Extractable
            /\ <<"growth", "raise">> \in calls'
            /\ ParsedObject(out)
            /\ \A k \in DOMAIN data : data[k].t # "list"
            /\ extract_diet(out) )
          => /\ RowAfter.cols["growth_percentile_info"] = Str("N/A")
             /\ \A k \in DOMAIN data : RowAfter.cols[ColOf(k)] = data[k]
             /\ resp'.status = 200]_vars

\* The growth call raised and the row holds the extracted height, weight,
\* summaries and recommendations.
C7_Witness ==
    /\ resp.op = "extract" /\ resp.status = 200
    /\ <<"growth", "raise">> \in calls
    /\ Row.cols["height"] = Str("150 cm") /\ Row.cols["weight"] = Str("45 kg")
    /\ Row.cols["growth_percentile_info"] = Str("N/A")
    /\ \A k \in InfoKeys \cup RecKeys : Row.cols[ColOf(k)].t = "str"

\* C8: when the extracted height or weight is "N/A" or absent, no growth
\* call is made, and the extraction stores "N/A" as growth_percentile_info.
C8_NoGrowthCallWithoutHeightAndWeight ==
    [][\A out \in ExtractionOutcomes :
          LET data == json_loads(Strip(out.content.v)).obj IN
          ( /\ Extractable
            /\ ParsedObject(out)
            /\ \E k \in {"height", "weight"} :
                   k \notin DOMAIN data \/ data[k] = Str("N/A")
            /\ extract_diet(out) )
          => /\ \A c \in calls' : c[1] # "growth"
             /\ resp'.status = 200 => RowAfter.cols["growth_percentile_info"] = Str("N/A")
             /\ RowAfter.cols["growth_percentile_info"] \in
                   {Row.cols["growth_percentile_info"], Str("N/A")}]_vars

\* A successful extraction for a 13-year-old with a height but no weight: no
\* growth call, "N/A" stored.
C8_Witness ==
    /\ resp.op = "extract" /\ resp.status = 200
    /\ calls = {<<"extract", "content">>}
    /\ session.appointment_data.age_years = 13
    /\ Row.cols["height"] = Str("150 cm") /\ Row.cols["weight"] = Str("N/A")
    /\ "weight" \notin DOMAIN resp.data
    /\ Row.cols["growth_percentile_info"] = Str("N/A")

\* C9: a session that holds a transcript also holds appointment_data whose
\* id is the id of a row of the appointments table.
C9_TranscriptHasAppointment ==
    "conversation_history" \in session.keys
    => /\ "appointment_data" \in session.keys
       /\ session.appointment_data.id \in 1..Len(appts)
       /\ appts[session.appointment_data.id].id = session.appointment_data.id

\* A session with a transcript of one turn, right after a login.
C9_Witness ==
    /\ "conversation_history" \in session.keys
    /\ Len(session.conversation_history) = 2
    /\ resp.op = "login" /\ resp.status = 302

\* C10: the reports view lists appointments of the session's own user, or,
\* for an admin session, of a user whose patient_group is the session's
\* admin_group; a patient session gets its own only, and a session without
\* a user gets none.
C10_ReportsOwnOrGroup ==
    resp.op = "reports"
    => /\ "user_id" \notin session.keys => (resp.rows = {} /\ resp.status = 302)
       /\ \A i \in resp.rows :
             \/ appts[i].user_id = session.user_id
             \/ /\ session.role = "admin"
                /\ users[appts[i].user_id].patient_group = session.admin_group
       /\ session.role = "patient"
             => \A i \in resp.rows : appts[i].user_id = session.user_id

\* An admin is shown an appointment of a patient of the group.
C10_Witness ==
    /\ resp.op = "reports" /\ resp.status = 200
    /\ session.role = "admin"
    /\ \E i \in resp.rows : appts[i].user_id # session.user_id
\* C11 (as claimed): no two user rows have usernames that are equal when
\* compared case-insensitively.
C11_NoTwoUsernamesEqualIgnoringCase ==
    \A i, j \in 1..Len(users) :
        i # j => lower(users[i].username) # lower(users[j].username)

\* The form has every required field, a valid gender and a date of birth
\* that is a date.
WellFormed(f) ==
    /\ Strip(f.first_name) # "" /\ Strip(f.last_name) # "" /\ f.username # ""
    /\ f.password # "" /\ f.role # ""
    /\ Strip(f.gender) \in {"male", "female"}
    /\ f.date_of_birth.ok

\* Years from a date of birth to a day: the difference of the years, less
\* one when the day's (month, day) is strictly before the birthday's.
YearsOld(dob, day) ==
    (day.y - dob.y)
    - (IF day.m < dob.m \/ (day.m = dob.m /\ day.d < dob.d) THEN 1 ELSE 0)

\* The signup step added a row for the form and logged the user in; or it
\* added nothing and rendered the form again.
Accepted(f) ==
    /\ Len(users') = Len(users) + 1
    /\ users' = Append(users, users'[Len(users')])
    /\ users'[Len(users')].username = f.username
    /\ users'[Len(users')].role = f.role
    /\ resp'.status = 302
Rejected == users' = users /\ resp'.status = 200 /\ resp'.error # NoText

\* C12: a well-formed signup with a free username is rejected for a
\* patient older than 18, accepted for a patient of 0..18, and for an admin
\* of any age accepted exactly when admin_group is not empty; a patient row
\* is only ever added at an age of at most 18.
C12_SignupAgeAndGroupRules ==
    [][\A f \in AgeForms :
          LET age == YearsOld(f.date_of_birth, today) IN
          ( /\ WellFormed(f)
            /\ age >= 0
            /\ \A i \in 1..Len(users) : LOWER(users[i].username) # LOWER(f.username)
            /\ signup(f) )
          => /\ (f.role = "patient" /\ age > 18) => Rejected
             /\ (f.role = "patient" /\ age <= 18) => Accepted(f)
             /\ f.role = "admin" => (Accepted(f) <=> Strip(f.admin_group) # "")
             /\ f.role = "admin" => (Rejected <=> Strip(f.admin_group) = "")
             /\ (Len(users') > Len(users) /\ f.role = "patient") => age <= 18]_vars

\* A patient accepted at 18, and the same form refused a day later at 19.
C12_Witness ==
    /\ \E i \in 1..Len(users) : users[i].username = "tom" /\ users[i].role = "patient"
    /\ today = Date(2024, 6, 15)
    /\ resp.op = "signup" /\ resp.error = <<"pediatric_only">>

\* C13: the age stored with a new appointment, in the row and in the
\* session, is the difference of the years less one when today's (month,
\* day) is strictly before the birthday's: 13 on 2024-06-14 and 14 on
\* 2024-06-15 for a date of birth of 2010-06-15; a signup applies its age
\* limits to the same number.
C13_AgeInYears ==
    [][ /\ Len(appts') > Len(appts) =>
             LET row == appts'[Len(appts')]
                 dob == users[row.user_id].date_of_birth
             IN /\ row.age_years = YearsOld(dob, today)
                /\ session'.appointment_data.age_years = row.age_years
                /\ (dob = Date(2010, 6, 15) /\ today = Date(2024, 6, 14))
                      => row.age_years = 13
                /\ (dob = Date(2010, 6, 15) /\ today = Date(2024, 6, 15))
                      => row.age_years = 14
        /\ \A f \in AgeForms :
              (WellFormed(f) /\ f.role = "patient" /\ signup(f))
              => /\ resp'.error = <<"dob_future">>
                      <=> YearsOld(f.date_of_birth, today) < 0
                 /\ resp'.error = <<"pediatric_only">>
                      <=> YearsOld(f.date_of_birth, today) > 18 ]_vars

\* An appointment made on the fourteenth birthday.
C13_Witness ==
    \E i \in 1..Len(appts) :
        /\ appts[i].age_years = 14
        /\ users[appts[i].user_id].date_of_birth = Date(2010, 6, 15)
        /\ today = Date(2024, 6, 15)
        /\ session.appointment_data.age_years = 14
\* Another user row has the username, compared case-insensitively.
TakenByAnother(name, self) ==
    \E i \in 1..Len(users) :
        users[i].id # self /\ lower(users[i].username) = lower(name)

\* The validation failures of a signup form and of a profile edit.
SignupInvalid(f) ==
    \/ ~WellFormed(f)
    \/ YearsOld(f.date_of_birth, today) < 0
    \/ f.role = "patient" /\ YearsOld(f.date_of_birth, today) > 18
    \/ f.role = "admin" /\ Strip(f.admin_group) = ""
    \/ TakenByAnother(f.username, 0)
EditInvalid(username) ==
    \/ Strip(username) = ""
    \/ TakenByAnother(Strip(username), session.user_id)

\* C14 (as claimed): a signup or profile edit that fails validation changes
\* no user row and no session value, and renders the form again with an
\* error message.
C14_InvalidFormChangesNothing ==
    [][ /\ \A f \in IdentityForms :
              (SignupInvalid(f) /\ signup(f))
              => /\ users' = users /\ session' = session
                 /\ resp'.status = 200 /\ resp'.page = "signup.html"
                 /\ resp'.error # NoText
        /\ \A e \in IdentityEdits :
              ( /\ "user_id" \in session.keys
                /\ UserById(session.user_id) # 0
                /\ EditInvalid(e[1])
                /\ edit_profile(e[1], e[2], e[3]) )
              => /\ users' = users /\ session' = session
                 /\ resp'.status = 200 /\ resp'.page = "edit_profile.html"
                 /\ resp'.error # NoText ]_vars
\* The class of each failure detail: what a reader of the detail would call
\* it.
RateLimitDetails == {Detail429, DetailRateLimit, DetailQuota}
AuthenticationDetails == {DetailApiKey, DetailAuthentication}
ApologyFor(detail) ==
    IF detail \in RateLimitDetails
    THEN "I'm currently experiencing high demand. Please wait about 20 seconds and try again. Thank you for your patience!"
    ELSE IF detail \in AuthenticationDetails
    THEN "There was an authentication issue. Please contact support if this persists."
    ELSE "Sorry, I encountered an error processing your message. Please try again in a moment."

\* The detail of a failed chat turn: the exception's text, or the text the
\* handler raises for a missing choice or an empty content.
FailureDetail(out) ==
    CASE out.kind = "raise" -> out.detail
      [] out.kind = "nochoices" -> EmptyResponseDetail
      [] OTHER -> NoContentDetail

\* C15: a failed chat turn answers 500; its message is the rate-limit text
\* for a rate-limit or 429 detail, otherwise the authentication text for an
\* API-key or authentication detail, otherwise the generic text; the detail
\* itself is in the error field and the message is the fixed text only.
C15_ApologyByFailureClass ==
    [][\A out \in ApologyOutcomes :
          ( /\ "appointment_data" \in session.keys
            /\ ~Answered(out)
            /\ conversation_page("POST", "I am her dad", out) )
          => /\ resp'.status = 500
             /\ resp'.message = << ApologyFor(FailureDetail(out)) >>
             /\ resp'.error = FailureDetail(out)
             /\ resp'.error # resp'.message ]_vars

\* An upper-case rate-limit detail answered with the rate-limit text.
C15_Witness ==
    /\ resp.op = "conversation" /\ resp.status = 500
    /\ resp.error = DetailRateLimit
    /\ resp.message = RateLimitMessage
    /\ calls = {<<"chat", "raise">>}
\* The response tells the class of a failure with the given detail: it
\* carries the apology of the class, or the detail itself.
ReportsFailure(detail) ==
    resp'.message = << ApologyFor(detail) >> \/ resp'.error = detail

\* C16 (as claimed): a rate-limit, an authentication and a generic failure
\* of the completion call are each reported to the user by the chat turn,
\* by the extraction and by the growth derivation, and none of them lets
\* the failed operation write: no transcript entry, no appointment row, no
\* growth narrative.
C16_EveryCallerReportsTheFailureClass ==
    [][ /\ \A msg \in Utterances \ {""}, out \in Failures :
              ( /\ "appointment_data" \in session.keys
                /\ conversation_page("POST", msg, out) )
              => ReportsFailure(out.detail) /\ session' = session /\ appts' = appts
        /\ \A out \in Failures :
              (Extractable /\ extract_diet(out))
              => ReportsFailure(out.detail) /\ appts' = appts
        /\ <<"growth", "raise">> \in calls'
              => /\ \E out \in Failures : ReportsFailure(out.detail)
                 /\ RowAfter.cols["growth_percentile_info"] = Str("N/A") ]_vars
\* C17 (as claimed): the appointment named by the session's
\* appointment_data belongs to the session's user.
C17_AppointmentBelongsToSessionUser ==
    ( /\ "appointment_data" \in session.keys
      /\ session.appointment_data.id \in 1..Len(appts) )
    => /\ "user_id" \in session.keys
       /\ Row.user_id = session.user_id

\* C18 (as claimed): a successful extraction that returned a height and a
\* weight other than "N/A", for an appointment with an age of 0..18 and a
\* gender, has called the growth derivation and stored its narrative or
\* "N/A".
C18_GrowthDerivedAtEveryAge ==
    ( /\ resp.op = "extract" /\ resp.status = 200
      /\ \A k \in {"height", "weight"} :
             k \in DOMAIN resp.data /\ resp.data[k] # Str("N/A")
      /\ session.appointment_data.age_years \in 0..18
      /\ session.appointment_data.gender # "" )
    => /\ \E c \in calls : c[1] = "growth"
       /\ Row.cols["growth_percentile_info"].t = "str"

\* C19 (as claimed): signups served concurrently, each checking and then
\* inserting, never leave two user rows whose usernames differ only in the
\* case of their letters.
C19_ConcurrentSignupsKeepUsernamesUnique ==
    \A i, j \in 1..Len(users) :
        i # j => LOWER(users[i].username) # LOWER(users[j].username)

\* C20: a session holds appointment_data only together with user_id; so a
\* request that called the completion service or wrote an appointment row
\* came from a session with a user, and without a user a chat turn is
\* redirected and an extraction refused, with no call made.
C20_AppointmentOnlyWithUser ==
    /\ "appointment_data" \in session.keys => "user_id" \in session.keys
    /\ calls # {} => "user_id" \in session.keys
    /\ (resp.op = "extract" /\ resp.status = 200) => "user_id" \in session.keys
    /\ "user_id" \notin session.keys
         => /\ resp.op = "conversation" => (resp.status = 302 /\ calls = {})
            /\ resp.op = "extract" => (resp.status = 400 /\ calls = {})

\* After a logout, an extraction is refused although an appointment was
\* made and filled before.
C20_Witness ==
    /\ resp.op = "extract" /\ resp.status = 400
    /\ "user_id" \notin session.keys
    /\ \E i \in 1..Len(appts) : appts[i].cols # NewCols
====
